---- MODULE Spec2Model ----
(***************************************************************************)
(* SuperMemo-2 scheduler (src/supermemo.py) over the QuesAns rows of       *)
(* src/main.py.                                                            *)
(*                                                                         *)
(* Numbers.  EasinessFactor is a Python float (an IEEE-754 double).  The   *)
(* stored value is always round(x, 2), the double nearest to h/100 for an  *)
(* integer h, so a row keeps h (hundredths).  Inside                       *)
(* calculate_next_revision the arithmetic is done on doubles, modelled     *)
(* exactly: a double is the natural number v * 2^60 (every value the       *)
(* computation meets is a multiple of 2^-60), held as a little-endian      *)
(* sequence of limbs in base 2^15, and every operation rounds its exact    *)
(* result to 53 significant bits, ties to even.                            *)
(*                                                                         *)
(* Time.  A datetime is a number of ticks, TicksPerDay ticks to a day;     *)
(* .date() is the day number.  None is the value None.                     *)
(***************************************************************************)
EXTENDS Integers, Sequences, FiniteSets, TLC

VARIABLES questions, now, result

vars == <<questions, now, result>>

(***************************************************************************)
(* Natural numbers of any size: little-endian limbs, no leading zero limb. *)
(***************************************************************************)
Base == 2^15

RECURSIVE Norm(_)
Norm(a) ==
    IF a = <<>> THEN <<>>
    ELSE IF a[Len(a)] = 0 THEN Norm(SubSeq(a, 1, Len(a) - 1))
    ELSE a

FromInt(n) ==
    Norm(<<n % Base, (n \div Base) % Base, n \div (Base * Base)>>)

Limb(a, i) == IF i <= Len(a) THEN a[i] ELSE 0

MaxOf(x, y) == IF x >= y THEN x ELSE y

RECURSIVE AddFrom(_, _, _, _)
AddFrom(a, b, i, carry) ==
    IF i > MaxOf(Len(a), Len(b))
    THEN IF carry = 0 THEN <<>> ELSE <<carry>>
    ELSE LET s == Limb(a, i) + Limb(b, i) + carry
         IN  <<s % Base>> \o AddFrom(a, b, i + 1, s \div Base)

BAdd(a, b) == AddFrom(a, b, 1, 0)

\* a - b, for a >= b
RECURSIVE SubFrom(_, _, _, _)
SubFrom(a, b, i, borrow) ==
    IF i > Len(a) THEN <<>>
    ELSE LET s == Limb(a, i) - Limb(b, i) - borrow
         IN  <<s % Base>> \o SubFrom(a, b, i + 1, IF s < 0 THEN 1 ELSE 0)

BSub(a, b) == Norm(SubFrom(a, b, 1, 0))

\* a * k, for 0 <= k < Base
RECURSIVE MulFrom(_, _, _, _)
MulFrom(a, k, i, carry) ==
    IF i > Len(a)
    THEN IF carry = 0 THEN <<>> ELSE <<carry>>
    ELSE LET s == a[i] * k + carry
         IN  <<s % Base>> \o MulFrom(a, k, i + 1, s \div Base)

BMulSmall(a, k) == Norm(MulFrom(a, k, 1, 0))

\* [q, r] with a = q * k + r, for 0 < k < Base
RECURSIVE DivFrom(_, _, _, _)
DivFrom(a, k, i, rem) ==
    IF i = 0 THEN [q |-> <<>>, r |-> rem]
    ELSE LET cur  == rem * Base + a[i]
             rest == DivFrom(a, k, i - 1, cur % k)
         IN  [q |-> rest.q \o <<cur \div k>>, r |-> rest.r]

NormQuotient(d) == [q |-> Norm(d.q), r |-> d.r]

BDivSmall(a, k) == NormQuotient(DivFrom(a, k, Len(a), 0))

RECURSIVE LessFrom(_, _, _)
LessFrom(a, b, i) ==
    IF i = 0 THEN FALSE
    ELSE IF Limb(a, i) # Limb(b, i) THEN Limb(a, i) < Limb(b, i)
    ELSE LessFrom(a, b, i - 1)

BLess(a, b) == LessFrom(a, b, MaxOf(Len(a), Len(b)))

\* a * 2^n
RECURSIVE BShl(_, _)
BShl(a, n) ==
    IF n = 0 \/ a = <<>> THEN a
    ELSE IF n >= 15 THEN BShl(<<0>> \o a, n - 15)
    ELSE BMulSmall(a, 2^n)

(***************************************************************************)
(* IEEE-754 double precision, round to nearest, ties to even.              *)
(***************************************************************************)
RECURSIVE LimbBits(_)
LimbBits(x) == IF x = 0 THEN 0 ELSE 1 + LimbBits(x \div 2)

BitLen(a) == IF a = <<>> THEN 0 ELSE 15 * (Len(a) - 1) + LimbBits(a[Len(a)])

IsOdd(a) == a # <<>> /\ a[1] % 2 = 1

\* [q, sticky]: q = a \div 2^n, sticky iff a one was shifted out
Shifted(d, low) == [q |-> d.q, sticky |-> d.r # 0 \/ Norm(low) # <<>>]

ShrLimbs(a, limbs, bits) ==
    Shifted(BDivSmall(SubSeq(a, limbs + 1, Len(a)), 2^bits), SubSeq(a, 1, limbs))

BShr(a, n) == ShrLimbs(a, n \div 15, n % 15)

\* The double nearest to a + (a fraction of a unit, nonzero iff sticky):
\* with n bits too many, h.q is the kept mantissa and h.r the first bit
\* dropped; round up when more than half, or half and the mantissa is odd
RoundUp(h, sticky, n) ==
    BShl(IF h.r = 1 /\ (sticky \/ IsOdd(h.q)) THEN BAdd(h.q, <<1>>) ELSE h.q, n)

RoundHalved(s, sticky, n) == RoundUp(BDivSmall(s.q, 2), s.sticky \/ sticky, n)

RoundShifted(a, sticky, n) ==
    IF n <= 0 THEN a ELSE RoundHalved(BShr(a, n - 1), sticky, n)

RoundToDouble(a, sticky) == RoundShifted(a, sticky, BitLen(a) - 53)

Fl(a) == RoundToDouble(a, FALSE)

\* float(h / 100) as written in a literal or produced by round(x, 2):
\* the double nearest to the decimal, computed on a grid 2^15 times finer
RoundQuotient(d) == RoundToDouble(d.q, d.r # 0)

DropLimb(f) == SubSeq(f, 2, Len(f))

Double(h) == DropLimb(RoundQuotient(BDivSmall(BShl(FromInt(h), 75), 100)))

FlAdd(x, y) == Fl(BAdd(x, y))
FlSub(x, y) == Fl(BSub(x, y))   \* x >= y
FlMulInt(k, x) == Fl(BMulSmall(x, k))

ToInt(a) == Limb(a, 1) + Base * Limb(a, 2)

Half == <<0, 0, 0, 2^14>>

\* the integer nearest to int + frac / 2^60, ties to even
RoundParts(int, frac) ==
    ToInt(IF BLess(Half, frac) \/ (frac = Half /\ IsOdd(int))
          THEN BAdd(int, <<1>>) ELSE int)

\* the integer nearest to the exact value of x / 2^60, ties to even
RoundHalfEven(x) ==
    RoundParts(SubSeq(x, 5, Len(x)),
               Norm(SubSeq(x, 1, IF Len(x) < 4 THEN Len(x) ELSE 4)))

\* Python round(x): float to int
PyRound(x) == RoundHalfEven(x)

\* Python round(x, 2), as hundredths
PyRound2(x) == RoundHalfEven(BMulSmall(x, 100))

(***************************************************************************)
(* QuesAns rows (src/main.py) and the constants of SuperMemo2.__init__.    *)
(***************************************************************************)
None == 0 - 2

datetime_min == 0 - 1          \* datetime.min: before every datetime

TicksPerDay == 2

date(t) == t \div TicksPerDay  \* datetime.date()

\* the days taken for ticks
timedelta_ticks(days) == days

timedelta(days) == days * TicksPerDay

DEFAULT_EASINESS == 250

DEFAULT_REPETITIONS == 0

DEFAULT_INTERVAL == 1

MIN_EASINESS == 130

\* a row as the database creates it: server defaults, nullable columns None
NewQuestion(id) ==
    [id |-> id, RevisedDate |-> None, RecallDate |-> None,
     EasinessFactor |-> DEFAULT_EASINESS, Repetitions |-> DEFAULT_REPETITIONS,
     Interval |-> DEFAULT_INTERVAL, LastGrade |-> None]

\* x or default, for a number column: None and 0 are falsy
OrDefault(x, default) == IF x = None \/ x = 0 THEN default ELSE x

(***************************************************************************)
(* SuperMemo2.calculate_next_revision                                      *)
(***************************************************************************)
InvalidGrade(grade) == ~(1 <= grade /\ grade <= 5)

\* the literals 0.1, 0.08, 0.02 and MIN_EASINESS as doubles
Float_0_1 == Double(10)

Float_0_08 == Double(8)

Float_0_02 == Double(2)

Float_MIN_EASINESS == Double(MIN_EASINESS)

\* (5 - grade) * (0.08 + (5 - grade) * 0.02), for grade in 1..5
GradePenalty ==
    [grade \in 1..5 |->
        FlMulInt(5 - grade, FlAdd(Float_0_08, FlMulInt(5 - grade, Float_0_02)))]

\* the penalty of the grade left out
AddDeltaNoPenalty(ef, penalty) == FlAdd(ef, Float_0_1)

\* ef + (0.1 - penalty)
AddDelta(ef, penalty) ==
    IF BLess(Float_0_1, penalty)
    THEN FlSub(ef, FlSub(penalty, Float_0_1))
    ELSE FlAdd(ef, FlSub(Float_0_1, penalty))

\* the floor left out
MaxMinEasinessNoFloor(x) == x

\* max(MIN_EASINESS, x)
MaxMinEasiness(x) ==
    IF BLess(Float_MIN_EASINESS, x) THEN x ELSE Float_MIN_EASINESS

\* max(MIN_EASINESS, ef + (0.1 - (5 - grade) * (0.08 + (5 - grade) * 0.02)))
\* on doubles; ef is the double of the stored easiness
NewEasinessFactor(ef, grade) == MaxMinEasiness(AddDelta(ef, GradePenalty[grade]))

\* grade 2 taken for a success
NewRepetitionsFromTwo(grade, repetitions) ==
    IF grade < 2 THEN 0 ELSE repetitions + 1

NewRepetitions(grade, repetitions) ==
    IF grade < 3 THEN 0 ELSE repetitions + 1

\* the product taken with the easiness as stored, rounded to 2 decimals
NewIntervalFromStored(grade, repetitions, interval, new_easiness_factor) ==
    IF grade < 3 THEN 1
    ELSE IF repetitions + 1 = 1 THEN 1
    ELSE IF repetitions + 1 = 2 THEN 6
    ELSE PyRound(FlMulInt(interval, Double(PyRound2(new_easiness_factor))))

\* a failure scheduled for the same day
NewIntervalZeroOnFailure(grade, repetitions, interval, new_easiness_factor) ==
    IF grade < 3 THEN 0
    ELSE IF repetitions + 1 = 1 THEN 1
    ELSE IF repetitions + 1 = 2 THEN 6
    ELSE PyRound(FlMulInt(interval, new_easiness_factor))

NewInterval(grade, repetitions, interval, new_easiness_factor) ==
    IF grade < 3 THEN 1
    ELSE IF repetitions + 1 = 1 THEN 1
    ELSE IF repetitions + 1 = 2 THEN 6
    ELSE PyRound(FlMulInt(interval, new_easiness_factor))

NoUpdate == [RevisedDate |-> None, RecallDate |-> None, EasinessFactor |-> None,
             Repetitions |-> None, Interval |-> None, LastGrade |-> None]

\* the returned dictionary
Revision(current_date, new_easiness, new_repetitions, new_interval, grade) ==
    [raised |-> FALSE,
     update |-> [RevisedDate |-> current_date,
                 RecallDate |-> current_date + timedelta(new_interval),
                 EasinessFactor |-> new_easiness,
                 Repetitions |-> new_repetitions,
                 Interval |-> new_interval,
                 LastGrade |-> grade]]

NextRevision(repetitions, interval, new_easiness_factor, grade, current_date) ==
    Revision(current_date, PyRound2(new_easiness_factor),
             NewRepetitions(grade, repetitions),
             NewInterval(grade, repetitions, interval, new_easiness_factor),
             grade)

Resolved(easiness_factor, repetitions, interval, grade, current_date) ==
    NextRevision(repetitions, interval,
                 NewEasinessFactor(easiness_factor, grade), grade, current_date)

\* the returned dictionary, or the ValueError of an invalid grade
calculate_next_revision(question, grade, current_date) ==
    IF InvalidGrade(grade) THEN [raised |-> TRUE, update |-> NoUpdate]
    ELSE Resolved(Double(OrDefault(question.EasinessFactor, DEFAULT_EASINESS)),
                  OrDefault(question.Repetitions, DEFAULT_REPETITIONS),
                  OrDefault(question.Interval, DEFAULT_INTERVAL),
                  grade, current_date)

\* for key, value in update_data.items(): setattr(question, key, value)
SetAttrs(question, update_data) ==
    [question EXCEPT !.RevisedDate = update_data.RevisedDate,
                     !.RecallDate = update_data.RecallDate,
                     !.EasinessFactor = update_data.EasinessFactor,
                     !.Repetitions = update_data.Repetitions,
                     !.Interval = update_data.Interval,
                     !.LastGrade = update_data.LastGrade]

(***************************************************************************)
(* SuperMemo2.update_question_after_review.  result is the call as its     *)
(* caller sees it: the arguments (question is the row as passed), whether  *)
(* it raised, the dictionary computed, whether the session was committed.  *)
(***************************************************************************)
\* the grade recorded on the row before it is validated
AfterReviewGradeFirst(id, grade, update_data) ==
    /\ questions' = IF update_data.raised
                    THEN [questions EXCEPT ![id].LastGrade = grade]
                    ELSE [questions EXCEPT ![id] = SetAttrs(@, update_data.update)]
    /\ result' = [op |-> "update_question_after_review", id |-> id,
                  question |-> questions[id],
                  grade |-> grade, raised |-> update_data.raised,
                  update |-> update_data.update,
                  committed |-> ~update_data.raised]
    /\ UNCHANGED now

AfterReview(id, grade, update_data) ==
    /\ questions' = IF update_data.raised THEN questions
                    ELSE [questions EXCEPT ![id] = SetAttrs(@, update_data.update)]
    /\ result' = [op |-> "update_question_after_review", id |-> id,
                  question |-> questions[id],
                  grade |-> grade, raised |-> update_data.raised,
                  update |-> update_data.update,
                  committed |-> ~update_data.raised]
    /\ UNCHANGED now

update_question_after_review(id, grade) ==
    AfterReview(id, grade, calculate_next_revision(questions[id], grade, now))

(***************************************************************************)
(* SuperMemo2.get_due_questions: input and output are lists of rows, held  *)
(* as lists of their ids                                                   *)
(***************************************************************************)
\* due only once the recall day has passed
IsDueAfterRecallDay(question, today) ==
    IF question.RecallDate = None THEN TRUE
    ELSE date(question.RecallDate) < today

IsDue(question, today) ==
    IF question.RecallDate = None THEN TRUE
    ELSE date(question.RecallDate) <= today

RECURSIVE DueFrom(_, _, _, _)
DueFrom(rows, input, i, today) ==
    IF i > Len(input) THEN <<>>
    ELSE (IF IsDue(rows[input[i]], today) THEN <<input[i]>> ELSE <<>>)
         \o DueFrom(rows, input, i + 1, today)

DueQuestions(rows, input, current_date) ==
    DueFrom(rows, input, 1, date(current_date))

get_due_questions(input) ==
    /\ result' = [op |-> "get_due_questions", input |-> input,
                  output |-> DueQuestions(questions, input, now)]
    /\ UNCHANGED <<questions, now>>

(***************************************************************************)
(* sorted(): a stable ascending sort by a key, keys being tuples of        *)
(* numbers compared lexicographically                                      *)
(***************************************************************************)
RECURSIVE TupleLess(_, _, _)
TupleLess(k1, k2, i) ==
    IF i > Len(k1) THEN FALSE
    ELSE IF k1[i] # k2[i] THEN k1[i] < k2[i]
    ELSE TupleLess(k1, k2, i + 1)

\* x put after every element of the sorted list s whose key is not greater;
\* key is the function from the elements to their keys
RECURSIVE InsertSorted(_, _, _)
InsertSorted(s, x, key) ==
    IF s = <<>> THEN <<x>>
    ELSE IF TupleLess(key[x], key[s[Len(s)]], 1)
         THEN InsertSorted(SubSeq(s, 1, Len(s) - 1), x, key) \o <<s[Len(s)]>>
         ELSE s \o <<x>>

RECURSIVE SortedFrom(_, _, _)
SortedFrom(s, n, key) ==
    IF n = 0 THEN <<>>
    ELSE InsertSorted(SortedFrom(s, n - 1, key), s[n], key)

sorted(s, key) == SortedFrom(s, Len(s), key)

\* s[:limit] for limit >= 0
Slice(s, limit) == SubSeq(s, 1, IF limit < Len(s) THEN limit ELSE Len(s))

(***************************************************************************)
(* SuperMemo2.get_chapter_questions_for_study                              *)
(***************************************************************************)
\* the key without the id
StudyKeyRecallDateOnly(rows, id) ==
    <<IF rows[id].RecallDate # None THEN rows[id].RecallDate ELSE datetime_min>>

StudyKey(rows, id) ==
    <<IF rows[id].RecallDate # None THEN rows[id].RecallDate ELSE datetime_min,
      rows[id].id>>

Limited(sorted_questions, limit) ==
    IF limit # None /\ limit # 0 THEN Slice(sorted_questions, limit)
    ELSE sorted_questions

ChapterQuestionsForStudy(rows, input, limit, current_date) ==
    Limited(sorted(DueQuestions(rows, input, current_date),
                   [id \in DOMAIN rows |-> StudyKey(rows, id)]),
            limit)

get_chapter_questions_for_study(input, limit) ==
    /\ result' = [op |-> "get_chapter_questions_for_study", input |-> input,
                  limit |-> limit,
                  output |-> ChapterQuestionsForStudy(questions, input, limit, now)]
    /\ UNCHANGED <<questions, now>>

(***************************************************************************)
(* SuperMemo2.update_questions_batch: pairs is question_grades.items(),    *)
(* the collection passed is every row of the chapter (result.questions is  *)
(* the rows as passed); an error message is held as the id and the reason  *)
(***************************************************************************)
\* the message not kept
BatchErrorDropped(st, question_id, error) == st

BatchError(st, question_id, error) ==
    [st EXCEPT !.errors = @ \o <<[id |-> question_id, error |-> error]>>]

BatchUpdate(st, question_id, update_data) ==
    IF update_data.raised THEN BatchError(st, question_id, "ValueError")
    ELSE [st EXCEPT
             !.rows[question_id] = SetAttrs(@, update_data.update),
             !.updated_questions = @ \o
                 <<[id |-> question_id,
                    next_review |-> date(update_data.update.RecallDate),
                    interval |-> update_data.update.Interval,
                    easiness |-> update_data.update.EasinessFactor]>>]

\* one turn of the loop over question_grades.items()
BatchStep(st, question_id, grade, current_date) ==
    IF InvalidGrade(grade) THEN BatchError(st, question_id, "Invalid grade")
    ELSE IF question_id \notin DOMAIN st.rows
    THEN BatchError(st, question_id, "Not found in provided list")
    ELSE BatchUpdate(st, question_id,
             calculate_next_revision(st.rows[question_id], grade, current_date))

\* the loop left at the first pair that fails
RECURSIVE BatchLoopUntilError(_, _, _, _)
BatchLoopUntilError(st, pairs, i, current_date) ==
    IF i > Len(pairs) THEN st
    ELSE IF BatchStep(st, pairs[i][1], pairs[i][2], current_date).errors # st.errors
    THEN BatchStep(st, pairs[i][1], pairs[i][2], current_date)
    ELSE BatchLoopUntilError(BatchStep(st, pairs[i][1], pairs[i][2], current_date),
                             pairs, i + 1, current_date)

RECURSIVE BatchLoop(_, _, _, _)
BatchLoop(st, pairs, i, current_date) ==
    IF i > Len(pairs) THEN st
    ELSE BatchLoop(BatchStep(st, pairs[i][1], pairs[i][2], current_date),
                   pairs, i + 1, current_date)

\* a batch that updated nothing reported as a failure
BatchResultNeedsUpdate(st) ==
    [success |-> st.updated_questions # <<>>, rows |-> st.rows,
     updated_count |-> Len(st.updated_questions),
     updated_questions |-> st.updated_questions, errors |-> st.errors]

BatchResult(st) ==
    [success |-> TRUE, rows |-> st.rows,
     updated_count |-> Len(st.updated_questions),
     updated_questions |-> st.updated_questions, errors |-> st.errors]

QuestionsBatch(rows, pairs, current_date) ==
    IF pairs = <<>>
    THEN [success |-> FALSE, rows |-> rows, updated_count |-> 0,
          updated_questions |-> <<>>, errors |-> <<>>]
    ELSE BatchResult(BatchLoop([rows |-> rows, updated_questions |-> <<>>,
                                errors |-> <<>>], pairs, 1, current_date))

AfterBatch(pairs, r) ==
    /\ questions' = r.rows
    /\ result' = [op |-> "update_questions_batch", pairs |-> pairs,
                  questions |-> questions,
                  success |-> r.success, updated_count |-> r.updated_count,
                  updated_questions |-> r.updated_questions,
                  errors |-> r.errors]
    /\ UNCHANGED now

update_questions_batch(pairs) ==
    AfterBatch(pairs, QuestionsBatch(questions, pairs, now))

(***************************************************************************)
(* SuperMemo2.get_new_questions and SuperMemo2.get_study_statistics        *)
(***************************************************************************)
RECURSIVE NewFrom(_, _, _)
NewFrom(rows, input, i) ==
    IF i > Len(input) THEN <<>>
    ELSE (IF rows[input[i]].RevisedDate = None THEN <<input[i]>> ELSE <<>>)
         \o NewFrom(rows, input, i + 1)

get_new_questions(rows, input) == NewFrom(rows, input, 1)

RECURSIVE StudiedFrom(_, _, _)
StudiedFrom(rows, input, i) ==
    IF i > Len(input) THEN <<>>
    ELSE (IF rows[input[i]].RevisedDate # None THEN <<input[i]>> ELSE <<>>)
         \o StudiedFrom(rows, input, i + 1)

\* sum(): the doubles added one after the other from 0, each sum rounded
RECURSIVE SumEasiness(_, _, _)
SumEasiness(rows, studied_questions, n) ==
    IF n = 0 THEN <<>>
    ELSE FlAdd(SumEasiness(rows, studied_questions, n - 1),
               Double(rows[studied_questions[n]].EasinessFactor))

\* x / n for doubles x and an integer n > 0, and s / n for integers
FlDivInt(x, n) == DropLimb(RoundQuotient(BDivSmall(BShl(x, 15), n)))

IntDiv(s, n) == FlDivInt(BShl(FromInt(s), 60), n)

\* Python round(x, 1), as tenths
PyRound1(x) == RoundHalfEven(BMulSmall(x, 10))

\* round(avg_easiness, 2), as hundredths
AverageEasiness(rows, studied_questions) ==
    IF studied_questions # <<>>
    THEN PyRound2(FlDivInt(SumEasiness(rows, studied_questions,
                                       Len(studied_questions)),
                           Len(studied_questions)))
    ELSE DEFAULT_EASINESS

\* round((studied / total) * 100, 1), as tenths
CompletionRate(studied, total) ==
    IF total # 0 THEN PyRound1(FlMulInt(100, IntDiv(studied, total))) ELSE 0

\* every question counted as new
StatisticsAllNew(total, due_questions, new_questions, studied_questions, rows) ==
    [total_questions |-> total,
     due_today |-> Len(due_questions),
     new_questions |-> total,
     studied_questions |-> Len(studied_questions),
     average_easiness_factor |-> AverageEasiness(rows, studied_questions),
     completion_rate |-> CompletionRate(Len(studied_questions), total)]

Statistics(total, due_questions, new_questions, studied_questions, rows) ==
    [total_questions |-> total,
     due_today |-> Len(due_questions),
     new_questions |-> Len(new_questions),
     studied_questions |-> Len(studied_questions),
     average_easiness_factor |-> AverageEasiness(rows, studied_questions),
     completion_rate |-> CompletionRate(Len(studied_questions), total)]

StudyStatistics(rows, input, current_date) ==
    IF input = <<>>
    THEN [total_questions |-> 0, due_today |-> 0, new_questions |-> 0,
          studied_questions |-> 0,
          average_easiness_factor |-> DEFAULT_EASINESS, completion_rate |-> 0]
    ELSE Statistics(Len(input), DueQuestions(rows, input, current_date),
                    get_new_questions(rows, input), StudiedFrom(rows, input, 1),
                    rows)

get_study_statistics(input) ==
    /\ result' = [op |-> "get_study_statistics", input |-> input,
                  output |-> StudyStatistics(questions, input, now)]
    /\ UNCHANGED <<questions, now>>

(***************************************************************************)
(* SuperMemo2.get_next_review_batch                                        *)
(***************************************************************************)
\* the key of get_chapter_questions_for_study
ReviewKeyWithId(rows, id) ==
    <<IF rows[id].RecallDate # None THEN rows[id].RecallDate ELSE datetime_min,
      rows[id].id>>

ReviewKey(rows, id) ==
    <<IF rows[id].RecallDate # None THEN rows[id].RecallDate ELSE datetime_min>>

\* sorted_questions[:batch_size] for batch_size >= 0
NextReviewBatch(rows, input, batch_size, current_date) ==
    Slice(sorted(DueQuestions(rows, input, current_date),
                 [id \in DOMAIN rows |-> ReviewKey(rows, id)]),
          batch_size)

get_next_review_batch(input, batch_size) ==
    /\ result' = [op |-> "get_next_review_batch", input |-> input,
                  batch_size |-> batch_size,
                  output |-> NextReviewBatch(questions, input, batch_size, now)]
    /\ UNCHANGED <<questions, now>>

(***************************************************************************)
(* Inputs and bounds                                                       *)
(***************************************************************************)
MaxNow == 4                \* last tick of the clock under Spec

MaxRepetitions == 2        \* longest streak explored under Spec and SpecBatch

MaxBatch == 2              \* most pairs in one question_grades under SpecBatch

MaxRepetitionsSM2 == 7     \* longest streak explored under SpecSM2

MaxRaises == 2             \* most steps of 0.1 explored above DEFAULT_EASINESS

\* largest stored easiness explored (hundredths)
MaxEasiness == DEFAULT_EASINESS + 10 * MaxRaises

\* ids of the rows of the chapter under Spec
ChapterIds == {1, 2, 3}

\* grades under Spec: below the range, a success
Grades == {0, 4}

\* ids of the rows of the chapter under SpecBatch
ChapterIdsBatch == {1, 2}

\* grades under SpecBatch: below the range, a failure, a success, above the
\* range
GradesBatch == {0, 1, 4, 6}

\* grades under SpecSM2
GradesSM2 == (0 - 1) .. 7

\* every row stays within the explored streak and easiness
Within(rows, maxRepetitions) ==
    \A id \in DOMAIN rows :
        /\ rows[id].Repetitions <= maxRepetitions
        /\ rows[id].EasinessFactor <= MaxEasiness

\* lists without repetition over a set
Lists(S) ==
    {s \in UNION {[1..n -> S] : n \in 0..Cardinality(S)} :
        \A i, j \in DOMAIN s : i # j => s[i] # s[j]}

\* question_grades.items(): lists of (id, grade) with distinct ids; the id
\* after the last row is the id of no row of the chapter
Items(rows, grades, maxLen) ==
    {s \in UNION {[1..n -> (DOMAIN rows \cup {Cardinality(DOMAIN rows) + 1}) \X grades] :
                  n \in 0..maxLen} :
        \A i, j \in DOMAIN s : i # j => s[i][1] # s[j][1]}

\* no call has returned a value the caller still holds
NoCall == [op |-> "none"]

\* the caller is done with the returned value (the handlers of src/main.py
\* render or redirect); calls come one after the other
Return ==
    /\ result # NoCall
    /\ result' = NoCall
    /\ UNCHANGED <<questions, now>>

(***************************************************************************)
(* Spec: a chapter of new rows, every operation, the clock                 *)
(***************************************************************************)
Init ==
    /\ questions = [id \in ChapterIds |-> NewQuestion(id)]
    /\ now = 0
    /\ result = NoCall

Tick ==
    /\ result = NoCall
    /\ now < MaxNow
    /\ now' = now + 1
    /\ UNCHANGED <<questions, result>>

Review ==
    /\ result = NoCall
    /\ \E id \in DOMAIN questions, grade \in Grades :
        /\ update_question_after_review(id, grade)
        /\ Within(questions', MaxRepetitions)

Batch ==
    /\ result = NoCall
    /\ \E pairs \in Items(questions, Grades, 1) :
        /\ update_questions_batch(pairs)
        /\ Within(questions', MaxRepetitions)

Due ==
    /\ result = NoCall
    /\ \E input \in Lists(DOMAIN questions) :
        get_due_questions(input)

Study ==
    /\ result = NoCall
    /\ \E input \in Lists(DOMAIN questions),
          limit \in {None} \cup (0 .. Cardinality(DOMAIN questions) + 1) :
        get_chapter_questions_for_study(input, limit)

Next == Tick \/ Review \/ Batch \/ Due \/ Study \/ Return

Spec == Init /\ [][Next]_vars

(***************************************************************************)
(* SpecBatch: a chapter of new rows graded in batches of up to MaxBatch    *)
(* pairs; the clock stands still                                           *)
(***************************************************************************)
InitBatch ==
    /\ questions = [id \in ChapterIdsBatch |-> NewQuestion(id)]
    /\ now = 0
    /\ result = NoCall

BatchMany ==
    /\ result = NoCall
    /\ \E pairs \in Items(questions, GradesBatch, MaxBatch) :
        /\ update_questions_batch(pairs)
        /\ Within(questions', MaxRepetitions)

NextBatch == BatchMany \/ Return

SpecBatch == InitBatch /\ [][NextBatch]_vars

(***************************************************************************)
(* SpecSM2: one new row reviewed again and again, every grade, long        *)
(* streaks; the clock stands still                                         *)
(***************************************************************************)
InitSM2 ==
    /\ questions = [id \in {1} |-> NewQuestion(id)]
    /\ now = 0
    /\ result = NoCall

ReviewSM2 ==
    /\ result = NoCall
    /\ \E grade \in GradesSM2 :
        /\ update_question_after_review(1, grade)
        /\ Within(questions', MaxRepetitionsSM2)

BatchSM2 ==
    /\ result = NoCall
    /\ \E grade \in GradesSM2 :
        /\ update_questions_batch(<< <<1, grade>> >>)
        /\ Within(questions', MaxRepetitionsSM2)

NextSM2 == ReviewSM2 \/ BatchSM2 \/ Return

SpecSM2 == InitSM2 /\ [][NextSM2]_vars

(***************************************************************************)
(* SpecDeck: a chapter of new rows reviewed with grades that move the      *)
(* easiness, the review batch and the statistics of any list of its rows,  *)
(* the clock                                                               *)
(***************************************************************************)
\* grades under SpecDeck: below the range, a success that lowers the easiness
GradesDeck == {0, 3}

ReviewDeck ==
    /\ result = NoCall
    /\ \E id \in DOMAIN questions, grade \in GradesDeck :
        /\ update_question_after_review(id, grade)
        /\ Within(questions', MaxRepetitions)

ReviewBatch ==
    /\ result = NoCall
    /\ \E input \in Lists(DOMAIN questions),
          batch_size \in 1 .. Cardinality(DOMAIN questions) + 1 :
        get_next_review_batch(input, batch_size)

Stats ==
    /\ result = NoCall
    /\ \E input \in Lists(DOMAIN questions) :
        get_study_statistics(input)

NextDeck == Tick \/ ReviewDeck \/ ReviewBatch \/ Stats \/ Return

SpecDeck == Init /\ [][NextDeck]_vars

(***************************************************************************)
(* SpecDue: one new row reviewed with the grades 1..5 while the clock runs *)
(* past the day the row comes due again                                    *)
(***************************************************************************)
MaxNowDue == 14            \* last tick of the clock under SpecDue

\* grades under SpecDue
GradesDue == 1 .. 5

TickDue ==
    /\ result = NoCall
    /\ now < MaxNowDue
    /\ now' = now + 1
    /\ UNCHANGED <<questions, result>>

ReviewDue ==
    /\ result = NoCall
    /\ \E grade \in GradesDue :
        /\ update_question_after_review(1, grade)
        /\ Within(questions', MaxRepetitions)

BatchDue ==
    /\ result = NoCall
    /\ \E grade \in GradesDue :
        /\ update_questions_batch(<< <<1, grade>> >>)
        /\ Within(questions', MaxRepetitions)

NextDue == TickDue \/ ReviewDue \/ BatchDue \/ Due \/ Return

SpecDue == InitSM2 /\ [][NextDue]_vars

(***************************************************************************)
(* Properties                                                              *)
(***************************************************************************)
Range(s) == {s[i] : i \in DOMAIN s}

ReviewReturned ==
    result.op = "update_question_after_review" /\ ~result.raised

BatchReturned == result.op = "update_questions_batch"

\* C1: after any sequence of reviews of a new row, by
\* update_question_after_review or update_questions_batch with any grade,
\* the stored EasinessFactor is at least 1.3, and so is the easiness every
\* call hands back after rounding it to 2 decimals.
C1_EasinessAtLeastFloor ==
    /\ \A id \in DOMAIN questions : questions[id].EasinessFactor >= 130
    /\ ReviewReturned => result.update.EasinessFactor >= 130
    /\ BatchReturned =>
           \A i \in DOMAIN result.updated_questions :
               result.updated_questions[i].easiness >= 130

\* C1 witness: a failing grade has just been applied and the easiness sits
\* on the floor.
C1_Witness ==
    /\ ReviewReturned
    /\ result.grade = 1
    /\ result.question.EasinessFactor < 130 + 54
    /\ questions[result.id].EasinessFactor = 130

\* C2: a review with grade 1 or 2 hands back Repetitions 0 and Interval 1,
\* whatever the row; and in every state a row that was never reviewed or
\* whose LastGrade is below 3 has Repetitions 0.
C2_FailureResetsStreak ==
    /\ (ReviewReturned /\ result.grade \in {1, 2}) =>
           result.update.Repetitions = 0 /\ result.update.Interval = 1
    /\ \A id \in DOMAIN questions :
           (questions[id].RevisedDate = None
               \/ questions[id].LastGrade = None
               \/ questions[id].LastGrade < 3) => questions[id].Repetitions = 0

\* C2 witness: a streak of at least two, with an interval above 1, has just
\* been reset by a grade 2.
C2_Witness ==
    /\ ReviewReturned
    /\ result.grade = 2
    /\ result.question.Repetitions >= 2
    /\ result.question.Interval > 1
    /\ questions[result.id].Repetitions = 0
    /\ questions[result.id].Interval = 1

\* The interval of a success: 1 and 6 for the first two of a streak, then the
\* previous interval times the easiness given, rounded.
SuccessInterval(new_repetitions, interval, easiness) ==
    IF new_repetitions = 1 THEN 1
    ELSE IF new_repetitions = 2 THEN 6
    ELSE PyRound(FlMulInt(interval, easiness))

\* C3 as claimed: a review with grade 3, 4 or 5 hands back Repetitions one
\* above the row's, and Interval 1, 6 or round(previous Interval * the
\* EasinessFactor handed back by the same call).
C3_IntervalFromReturnedEasiness ==
    (ReviewReturned /\ result.grade \in {3, 4, 5}) =>
        /\ result.update.Repetitions = result.question.Repetitions + 1
        /\ result.update.Interval =
               SuccessInterval(result.update.Repetitions, result.question.Interval,
                               Double(result.update.EasinessFactor))

\* C3 amended: a review with grade 3, 4 or 5 hands back Repetitions one above
\* the row's, and Interval 1, 6 or round(previous Interval * e), e being the
\* double max(1.3, EasinessFactor + (0.1 - (5 - grade) * (0.08 + (5 - grade)
\* * 0.02))) before it is rounded to 2 decimals.
C3_IntervalFromUnroundedEasiness ==
    (ReviewReturned /\ result.grade \in {3, 4, 5}) =>
        /\ result.update.Repetitions = result.question.Repetitions + 1
        /\ result.update.Interval =
               SuccessInterval(result.update.Repetitions, result.question.Interval,
                   MaxMinEasiness(AddDelta(Double(result.question.EasinessFactor),
                                           GradePenalty[result.grade])))

\* C3 witness: a streak beyond 2 has grown, and the unrounded and the
\* rounded easiness give different intervals.
C3_Witness ==
    /\ ReviewReturned
    /\ result.grade \in {3, 4, 5}
    /\ result.update.Repetitions > 2
    /\ result.update.Interval #
           PyRound(FlMulInt(result.question.Interval,
                            Double(result.update.EasinessFactor)))

\* C4: update_question_after_review with a grade outside 1..5 raises, writes
\* no field of any row and does not commit.
C4_InvalidGradeChangesNothing ==
    (result.op = "update_question_after_review"
        /\ (result.grade < 1 \/ result.grade > 5)) =>
        /\ result.raised
        /\ ~result.committed
        /\ questions[result.id] = result.question

\* C4 witness: a call with grade 6 on a row that has been reviewed before.
C4_Witness ==
    /\ result.op = "update_question_after_review"
    /\ result.grade = 6
    /\ result.raised
    /\ result.question.RevisedDate # None

\* C5: update_questions_batch reports success = false exactly when the
\* mapping is empty.
C5_SuccessUnlessEmpty ==
    BatchReturned => (result.success = FALSE <=> result.pairs = <<>>)

\* C5 witness: a mapping of two pairs that both fail, reported as a success.
C5_Witness ==
    /\ BatchReturned
    /\ Len(result.pairs) = 2
    /\ Len(result.errors) = 2
    /\ result.updated_count = 0
    /\ result.success

\* a pair that update_questions_batch must refuse
PairFails(pair, rows) ==
    pair[2] < 1 \/ pair[2] > 5 \/ pair[1] \notin DOMAIN rows

CountFor(entries, id) == Cardinality({i \in DOMAIN entries : entries[i].id = id})

C7_BatchAppliesEachPairAlone ==
    BatchReturned =>
        \A id \in DOMAIN questions :
            LET grades == {result.pairs[i][2] : i \in
                              {j \in DOMAIN result.pairs : result.pairs[j][1] = id}}
                valid  == {g \in grades : 1 <= g /\ g <= 5}
            IN  IF valid = {}
                THEN questions[id] = result.questions[id]
                ELSE \A g \in valid :
                         questions[id] =
                             SetAttrs(result.questions[id],
                                 calculate_next_revision(result.questions[id], g,
                                                         now).update)

\* C7 witness: a mapping whose first pair fails and whose second pair
\* changes a row, another row being left alone.
C7_Witness ==
    /\ BatchReturned
    /\ Len(result.pairs) = 2
    /\ PairFails(result.pairs[1], result.questions)
    /\ ~PairFails(result.pairs[2], result.questions)
    /\ questions[result.pairs[2][1]] # result.questions[result.pairs[2][1]]
    /\ \E id \in DOMAIN questions :
           id # result.pairs[2][1] /\ questions[id].RevisedDate # None

\* the ids of the list whose row has no RecallDate or one on a day up to
\* today
DueSet(input) ==
    {id \in Range(input) :
        \/ questions[id].RecallDate = None
        \/ questions[id].RecallDate \div TicksPerDay <= now \div TicksPerDay}

IsListOf(output, S) ==
    Range(output) = S /\ Len(output) = Cardinality(S)

\* C8: get_due_questions returns exactly the rows of its list with no
\* RecallDate or a RecallDate on a day up to today, each once.
C8_DueExactly ==
    result.op = "get_due_questions" =>
        IsListOf(result.output, DueSet(result.input))

\* C8 witness: of the three rows passed, one never scheduled and one whose
\* RecallDate is later today are returned, one due on a later day is not.
C8_Witness ==
    /\ result.op = "get_due_questions"
    /\ Len(result.input) = 3
    /\ \E a, b, c \in Range(result.input) :
           /\ questions[a].RecallDate = None
           /\ questions[b].RecallDate > now
           /\ b \in Range(result.output)
           /\ questions[c].RecallDate # None
           /\ c \notin Range(result.output)
           /\ a \in Range(result.output)

\* row a comes before row b in the order (RecallDate, id), no RecallDate
\* being before every date
ComesBefore(a, b) ==
    IF a.RecallDate = None /\ b.RecallDate = None THEN a.id < b.id
    ELSE IF a.RecallDate = None THEN TRUE
    ELSE IF b.RecallDate = None THEN FALSE
    ELSE \/ a.RecallDate < b.RecallDate
         \/ a.RecallDate = b.RecallDate /\ a.id < b.id

C10_LimitTruncates ==
    (result.op = "get_chapter_questions_for_study" /\ result.limit # None) =>
        /\ Len(result.output) <= result.limit
        /\ result.output =
               Slice(ChapterQuestionsForStudy(questions, result.input, None, now),
                     result.limit)

\* the place of a row in the list passed
PositionIn(input, id) == CHOOSE i \in DOMAIN input : input[i] = id

\* the RecallDate a row is sorted by, no RecallDate being before every date
SortDate(id) ==
    IF questions[id].RecallDate = None THEN datetime_min
    ELSE questions[id].RecallDate

\* row a comes before row b in the order of RecallDate, rows of one
\* RecallDate in the order of the list passed
ComesBeforeInList(input, a, b) ==
    \/ SortDate(a) < SortDate(b)
    \/ SortDate(a) = SortDate(b) /\ PositionIn(input, a) < PositionIn(input, b)

\* the due rows of one RecallDate stand in the list in ascending id
TiesInIdOrder(input) ==
    \A a, b \in DueSet(input) :
        (SortDate(a) = SortDate(b) /\ PositionIn(input, a) < PositionIn(input, b))
            => a < b

ReviewBatchReturned == result.op = "get_next_review_batch"

StatisticsReturned == result.op = "get_study_statistics"

NeverRevised(input) ==
    {id \in Range(input) : questions[id].RevisedDate = None}

\* C12: get_study_statistics counts the rows of its list, the due ones, the
\* ones never revised and the revised ones (the last two adding up to the
\* first), averages to DEFAULT_EASINESS when no row was revised, and on the
\* empty list returns zero counts, DEFAULT_EASINESS and a completion rate
\* of 0.
C12_StatisticsCounts ==
    StatisticsReturned =>
        /\ result.output.total_questions = Len(result.input)
        /\ result.output.due_today = Cardinality(DueSet(result.input))
        /\ result.output.new_questions = Cardinality(NeverRevised(result.input))
        /\ result.output.studied_questions =
               Cardinality(Range(result.input) \ NeverRevised(result.input))
        /\ result.output.new_questions + result.output.studied_questions =
               result.output.total_questions
        /\ (Range(result.input) \subseteq NeverRevised(result.input)) =>
               result.output.average_easiness_factor = DEFAULT_EASINESS
        /\ result.input = <<>> =>
               /\ result.output.due_today = 0
               /\ result.output.new_questions = 0
               /\ result.output.studied_questions = 0
               /\ result.output.completion_rate = 0

\* C12 witness: statistics of three rows, one never revised, two revised of
\* which one is not due, the average off DEFAULT_EASINESS.
C12_Witness ==
    /\ StatisticsReturned
    /\ result.output.total_questions = 3
    /\ result.output.new_questions = 1
    /\ result.output.studied_questions = 2
    /\ result.output.due_today = 2
    /\ result.output.average_easiness_factor # DEFAULT_EASINESS
    /\ result.output.completion_rate = 667

\* C12 witness of the empty list
C12_WitnessEmpty ==
    /\ StatisticsReturned
    /\ result.input = <<>>
    /\ result.output.total_questions = 0
    /\ \E id \in DOMAIN questions : questions[id].RevisedDate # None

\* a review of a row with EasinessFactor 2.5, Repetitions 0, Interval 1,
\* graded 4
FirstReviewReturned ==
    /\ ReviewReturned
    /\ result.question.EasinessFactor = DEFAULT_EASINESS
    /\ result.question.Repetitions = 0
    /\ result.question.Interval = 1
    /\ result.grade = 4

\* a review of a row with Repetitions 1, graded 5
SecondReviewReturned ==
    /\ ReviewReturned
    /\ result.question.Repetitions = 1
    /\ result.grade = 5

\* C13 as claimed: a row with EasinessFactor 2.5, Repetitions 0, Interval 1
\* graded 4 gets Repetitions 1, Interval 1, EasinessFactor 2.6 and RecallDate
\* one day after now; a row with Repetitions 1 graded 5 gets Repetitions 2 and
\* Interval 6.
C13_ScenarioEasinessRaised ==
    /\ FirstReviewReturned =>
           /\ result.update.Repetitions = 1
           /\ result.update.Interval = 1
           /\ result.update.EasinessFactor = 260
           /\ result.update.RecallDate = now + timedelta(1)
    /\ SecondReviewReturned =>
           /\ result.update.Repetitions = 2
           /\ result.update.Interval = 6

\* C13 amended: a row with EasinessFactor 2.5, Repetitions 0, Interval 1
\* graded 4 gets Repetitions 1, Interval 1, EasinessFactor 2.5 (grade 4
\* leaves the easiness as it is) and RecallDate one day after now, and the
\* row is left with these values; a row with Repetitions 1 graded 5 gets
\* Repetitions 2 and Interval 6.
C13_ScenarioEasinessKept ==
    /\ FirstReviewReturned =>
           /\ result.update.Repetitions = 1
           /\ result.update.Interval = 1
           /\ result.update.EasinessFactor = 250
           /\ result.update.RecallDate = now + timedelta(1)
           /\ questions[result.id].EasinessFactor = 250
           /\ questions[result.id].Repetitions = 1
    /\ SecondReviewReturned =>
           /\ result.update.Repetitions = 2
           /\ result.update.Interval = 6

\* C13 witness: the second review of the scenario, of the row the first
\* review (grade 4) left, graded 5.
C13_Witness ==
    /\ SecondReviewReturned
    /\ result.question.LastGrade = 4
    /\ result.question.EasinessFactor = DEFAULT_EASINESS
    /\ result.question.Interval = 1
    /\ questions[result.id].Repetitions = 2
    /\ questions[result.id].Interval = 6
    /\ questions[result.id].EasinessFactor = 260

\* C14: from a new row, whatever the reviews, Interval is an integer of at
\* least 1, in the row, in what a review hands back and in what a batch
\* reports; this holds on the branch of the rounded product too.
C14_IntervalAtLeastOne ==
    /\ \A id \in DOMAIN questions :
           questions[id].Interval \in Nat /\ questions[id].Interval >= 1
    /\ ReviewReturned =>
           result.update.Interval \in Nat /\ result.update.Interval >= 1
    /\ BatchReturned =>
           \A i \in DOMAIN result.updated_questions :
               /\ result.updated_questions[i].interval \in Nat
               /\ result.updated_questions[i].interval >= 1

\* C14 witness: a failure has just set the interval of a streak back to 1,
\* the interval before it having come from the rounded product.
C14_Witness ==
    /\ ReviewReturned
    /\ result.grade \in {1, 2}
    /\ result.question.Repetitions > 2
    /\ result.question.Interval > 6
    /\ questions[result.id].Interval = 1

\* the day of a datetime
DayOf(t) == t \div TicksPerDay

\* the row was reviewed at the time now, its new interval is k
ReviewedNow(id, k) ==
    /\ questions[id].RevisedDate = now
    /\ questions[id].Interval = k
    /\ questions[id].RecallDate = now + k * TicksPerDay
    /\ DayOf(questions[id].RecallDate) = DayOf(now) + k

\* C15: a review with a grade in 1..5 on day d that gives the interval k sets
\* RevisedDate to the time of the review and RecallDate k days later; and as
\* long as the row is not reviewed again, get_due_questions leaves it out on
\* the days d .. d + k - 1 and returns it on day d + k and every later day.
C15_DueAgainAfterInterval ==
    /\ ReviewReturned => ReviewedNow(result.id, result.update.Interval)
    /\ BatchReturned =>
           \A i \in DOMAIN result.updated_questions :
               ReviewedNow(result.updated_questions[i].id,
                           result.updated_questions[i].interval)
    /\ \A id \in DOMAIN questions :
           questions[id].RevisedDate # None =>
               /\ questions[id].RevisedDate <= now
               /\ questions[id].RecallDate =
                      questions[id].RevisedDate + questions[id].Interval * TicksPerDay
    /\ result.op = "get_due_questions" =>
           \A id \in Range(result.input) :
               questions[id].RevisedDate # None =>
                   (id \in Range(result.output)
                       <=> DayOf(now) >= DayOf(questions[id].RevisedDate)
                                             + questions[id].Interval)

\* C15 witness: a row reviewed late on day d with interval 6 is returned by
\* get_due_questions early on day d + 6, less than 6 days of time later.
C15_Witness ==
    /\ result.op = "get_due_questions"
    /\ result.input = <<1>>
    /\ result.output = <<1>>
    /\ questions[1].Interval = 6
    /\ DayOf(now) = DayOf(questions[1].RevisedDate) + 6
    /\ now < questions[1].RecallDate

\* C15 witness of the last day the row is left out
C15_WitnessNotDue ==
    /\ result.op = "get_due_questions"
    /\ result.input = <<1>>
    /\ result.output = <<>>
    /\ questions[1].Interval = 6
    /\ DayOf(now) = DayOf(questions[1].RevisedDate) + 5

====
